---- MODULE Spec2Model ----
(***************************************************************************)
(* OKX short bot (okx-bot_reserve/src): the scan pipeline of main.py, the  *)
(* process-wide 24h volume cache, the universe partition into the FVG /    *)
(* TREND / COMBO buckets, and the benchmark cache of CorrelationAnalyzer.  *)
(*                                                                         *)
(* Units: time in seconds, volumes in millions of USD, correlation in      *)
(* hundredths, reward:risk in tenths, percentages in whole percent.        *)
(***************************************************************************)
EXTENDS Integers, Sequences, FiniteSets, TLC

VARIABLES
    volume_cache,   \* main.py global: ordered dict instId -> volCcy24h, as a sequence of pairs
    cache_time,     \* main.py global: time of the last complete refresh (0 = never)
    now,            \* the wall clock, time.time()
    call_log,       \* history: what the last get_all_tickers_once() call did
    last_good,      \* history: the snapshot stored by the last complete refresh, and when
    cfg,            \* config.py values that vary between deployments
    pc,             \* position of main() / OKXShortBot.run()
    all_symbols,    \* __init__'s local: the selected universe
    symbols_fvg,    \* self.symbols_fvg
    symbols_trend,  \* self.symbols_trend
    symbols_combo,  \* self.symbols_combo
    signals,        \* self.signals
    signal_log,     \* logs/signals_<day>.json: the records appended so far
    last_report,    \* history: the report gen_report() rendered in this cycle (None = not yet)
    bucket,         \* which of run()'s three for-loops is executing
    idx,            \* index (1-based) of the bucket symbol being iterated
    cycle,          \* history: number of the scan cycle in progress
    evaluated,      \* history: (strategy, symbol) pairs analyze() was called with this cycle
    last_eval,      \* history: what the last analyze() call saw and did
    btc_requests,   \* history: benchmark candle requests sent by the bot this cycle
    cycle_snapshot, \* history: volume_cache as it was when the cycle started
    btc_cache,      \* CorrelationAnalyzer.btc_cache (None, or the cycle whose fetch filled it)
    corr_use,       \* history: last CorrelationAnalyzer.calculate_correlation call
    interrupt,      \* history: the KeyboardInterrupt delivered to run(), if any
    calc,           \* a call of one of the pure functions: its arguments, then its result
    wrapper,        \* the frame of a retry() wrapper call (decorators.py)
    pm,             \* the PositionManager object: positions, max_positions, position_timeout
    pm_last         \* history: the last PositionManager call and what it returned

vars == <<volume_cache, cache_time, now, call_log, last_good, cfg, pc, all_symbols,
          symbols_fvg, symbols_trend, symbols_combo, signals, signal_log, last_report,
          bucket, idx, cycle, evaluated, last_eval, btc_requests, cycle_snapshot, btc_cache, corr_use,
          interrupt, calc, wrapper, pm, pm_last>>

volVars == <<volume_cache, cache_time>>
botVars == <<pc, all_symbols, symbols_fvg, symbols_trend, symbols_combo, signals,
             signal_log, last_report, bucket, idx, cycle, evaluated, last_eval, btc_requests, cycle_snapshot>>
anVars  == <<btc_cache, corr_use>>
libVars == <<calc, wrapper, pm, pm_last>>

\* Python's None, where the other values are records.
None == [kind |-> "None"]

(***************************************************************************)
(* Program constants and model bounds                                      *)
(***************************************************************************)
CACHE_TTL == 300

MIN_24H_VOL_USD == 5
MAX_SYMBOLS == 3
MIN_CORR == 20
MIN_RR == 40
MIN_FVG == 1
ATR_SL_MULT == 15
ATR_TP_MULT == 60
SLEEP_BETWEEN_SYMBOLS == 100
SCAN_INTERVAL_SEC == 300
MIN_CANDLES == 50

MaxBoard == 4
MaxCandles == 5
MaxHighs == 9
MaxCloseSteps == 10
MaxAtr == 5
MaxAttempts == 3
MaxOffset == 6
MaxPositions == 2
MaxPmTicks == 3

StartNow == 1000
TickSec == 100
MaxTicks == 4
MaxTickers == 2
MaxUniverse == 7
MaxCycles == 2

Min(a, b) == IF a < b THEN a ELSE b
Max(a, b) == IF a > b THEN a ELSE b

(***************************************************************************)
(* Symbols.  s.endswith('-USDT-SWAP') and 'BTC' in s are string tests of   *)
(* the code; here they are decided by the name's membership in these sets. *)
(***************************************************************************)
RankedSymbols == <<"ETH-USDT-SWAP", "SOL-USDT-SWAP", "XRP-USDT-SWAP", "DOGE-USDT-SWAP",
                   "ADA-USDT-SWAP", "TRX-USDT-SWAP", "AVAX-USDT-SWAP", "LINK-USDT-SWAP">>
BENCHMARK == "BTC-USDT-SWAP"
OTHER_QUOTE == "ETH-USD-SWAP"

EndsWithUsdtSwap(s) ==
    \/ s = BENCHMARK
    \/ s = "BNB-USDT-SWAP"
    \/ \E k \in 1..Len(RankedSymbols) : RankedSymbols[k] = s
ContainsBTC(s) == s = BENCHMARK

(***************************************************************************)
(* The ordered dict volume_cache: a sequence of [instId, vol] with unique  *)
(* keys in insertion order.                                                *)
(***************************************************************************)
DictHas(d, k) == \E j \in 1..Len(d) : d[j].instId = k

DictGet(d, k, default) ==
    IF DictHas(d, k) THEN d[CHOOSE j \in 1..Len(d) : d[j].instId = k].vol ELSE default

DictSet(d, k, v) ==
    IF DictHas(d, k)
    THEN [j \in 1..Len(d) |-> IF d[j].instId = k THEN [instId |-> k, vol |-> v] ELSE d[j]]
    ELSE Append(d, [instId |-> k, vol |-> v])

DictKeys(d) == [j \in 1..Len(d) |-> d[j].instId]

(***************************************************************************)
(* get_all_tickers_once (main.py 32-54).  A provider response is           *)
(*   [kind |-> "exception"]            requests.get / .json() raised        *)
(*   [kind |-> "error_code"]           data['code'] != '0'                  *)
(*   [kind |-> "ok", data |-> entries] data['code'] == '0'                  *)
(* and a ticker entry is [instId, volCcy24h, ok]; ok = FALSE is an entry    *)
(* whose t['instId'] or float(...) raises.                                  *)
(***************************************************************************)
RECURSIVE ParseFrom(_, _, _)
ParseFrom(data, k, acc) ==
    IF k > Len(data) THEN [cache |-> acc, raised |-> FALSE]
    ELSE IF ~data[k].ok THEN [cache |-> acc, raised |-> TRUE]
    ELSE ParseFrom(data, k + 1, DictSet(acc, data[k].instId, data[k].volCcy24h))

ParseTickers(data) == ParseFrom(data, 1, <<>>)

CacheFresh(t, ctime) == t - ctime < CACHE_TTL

\* Mutant: the refresh forgets to stamp cache_time.
TickersAfterNoStamp(cache, ctime, t, resp) ==
    IF t - ctime < CACHE_TTL THEN [cache |-> cache, ctime |-> ctime]
    ELSE IF resp.kind # "ok" THEN [cache |-> cache, ctime |-> ctime]
    ELSE [cache |-> ParseFrom(resp.data, 1, <<>>).cache, ctime |-> ctime]

\* The globals after a call at time t that got response resp.
TickersAfter(cache, ctime, t, resp) ==
    IF CacheFresh(t, ctime) THEN [cache |-> cache, ctime |-> ctime]
    ELSE IF resp.kind # "ok" THEN [cache |-> cache, ctime |-> ctime]
    ELSE LET p == ParseTickers(resp.data)
         IN  IF p.raised THEN [cache |-> p.cache, ctime |-> ctime]
             ELSE [cache |-> p.cache, ctime |-> t]

\* Every return statement of the function returns the global as it then is.
get_all_tickers_once(cache, ctime, t, resp) == TickersAfter(cache, ctime, t, resp).cache

(***************************************************************************)
(* get_dynamic_symbols (main.py 63-67): filter, stable descending sort by  *)
(* volume (sorted(..., reverse=True) keeps equal keys in input order),     *)
(* top MAX_SYMBOLS.                                                        *)
(***************************************************************************)
Eligible(e, min_vol) ==
    e.vol > min_vol /\ EndsWithUsdtSwap(e.instId) /\ ~ContainsBTC(e.instId)

\* Insert e behind every element whose volume is >= e.vol.
InsertDesc(sorted, e) ==
    LET before == Cardinality({j \in 1..Len(sorted) : sorted[j].vol >= e.vol})
    IN  SubSeq(sorted, 1, before) \o <<e>> \o SubSeq(sorted, before + 1, Len(sorted))

RECURSIVE SortedDescFrom(_, _, _)
SortedDescFrom(entries, k, acc) ==
    IF k > Len(entries) THEN acc
    ELSE SortedDescFrom(entries, k + 1, InsertDesc(acc, entries[k]))

SortedDesc(entries) == SortedDescFrom(entries, 1, <<>>)

\* Mutant: a fixed symbol stands in when nothing is eligible.
get_dynamic_symbols_with_fallback(vols) ==
    LET symbols == SelectSeq(vols, LAMBDA e : Eligible(e, MIN_24H_VOL_USD))
        ranked  == DictKeys(SortedDesc(symbols))
    IN  IF Len(ranked) = 0 THEN <<RankedSymbols[1]>>
        ELSE SubSeq(ranked, 1, Min(MAX_SYMBOLS, Len(ranked)))

get_dynamic_symbols(vols) ==
    LET symbols == SelectSeq(vols, LAMBDA e : Eligible(e, MIN_24H_VOL_USD))
        ranked  == DictKeys(SortedDesc(symbols))
    IN  SubSeq(ranked, 1, Min(MAX_SYMBOLS, Len(ranked)))

(***************************************************************************)
(* UniverseFilter.get_symbols (universe_filter.py 7-35): its own request,  *)
(* the same filter, the provider's order, the first UNIVERSE_CAP entries;  *)
(* a fixed list on an error code and another on any exception.             *)
(***************************************************************************)
UNIVERSE_CAP == 200
UF_MIN_VOLUME_USD == 5

ApiErrorFallback == <<"BTC-USDT-SWAP", "ETH-USDT-SWAP", "SOL-USDT-SWAP", "BNB-USDT-SWAP">>
ExceptionFallback == <<"ETH-USDT-SWAP", "SOL-USDT-SWAP", "BNB-USDT-SWAP", "XRP-USDT-SWAP">>

\* The provider's ticker list as [instId, vol] entries, in its order.
TickerList(data) == [k \in 1..Len(data) |-> [instId |-> data[k].instId, vol |-> data[k].volCcy24h]]

UniverseFilter_get_symbols(resp) ==
    IF resp.kind = "exception" THEN ExceptionFallback
    ELSE IF resp.kind = "error_code" THEN ApiErrorFallback
    ELSE IF ParseTickers(resp.data).raised THEN ExceptionFallback
    ELSE LET symbols == DictKeys(SelectSeq(TickerList(resp.data),
                                           LAMBDA e : Eligible(e, UF_MIN_VOLUME_USD)))
         IN  SubSeq(symbols, 1, Min(UNIVERSE_CAP, Len(symbols)))

(***************************************************************************)
(* OKXShortBot.__init__ (main.py 71-86): the three slices.                 *)
(***************************************************************************)
\* int(n * pct) with pct given in whole percent: truncation toward zero.
PyInt(n, pct) == IF n * pct >= 0 THEN (n * pct) \div 100 ELSE 0 - ((0 - n * pct) \div 100)

\* A slice bound as Python resolves it: negative counts from the end, then clamped.
SliceBound(k, n) == IF k < 0 THEN Max(k + n, 0) ELSE Min(k, n)

\* s[lo:hi] with 0-based bounds.
Slice(s, lo, hi) == SubSeq(s, SliceBound(lo, Len(s)) + 1, SliceBound(hi, Len(s)))

\* Mutant: round() in place of int().
fvg_count_rounded(n, c) == (n * c.fvgPct + 50) \div 100

fvg_count(n, c) == PyInt(n, c.fvgPct)
trend_count(n, c) == PyInt(n, c.trendPct)

FvgSlice(all, c) == Slice(all, 0, fvg_count(Len(all), c))

\* Mutant: the slice ends at trend_count instead of fvg_count + trend_count.
TrendSliceEndsAtCount(all, c) ==
    Slice(all, fvg_count(Len(all), c), trend_count(Len(all), c))

TrendSlice(all, c) ==
    Slice(all, fvg_count(Len(all), c), fvg_count(Len(all), c) + trend_count(Len(all), c))

ComboSlice(all, c) ==
    Slice(all, fvg_count(Len(all), c) + trend_count(Len(all), c), Len(all))

(***************************************************************************)
(* The per-symbol funnel of main.py.  A price series is represented by     *)
(* what the indicator functions read from it:                              *)
(*   len    number of candles left after dropna()                          *)
(*   fvg    fvg_count(df)          trend  trend_check(df)                  *)
(*   clean  manip_check(df)        atr    atr_pct(df), in percent          *)
(*   close  df['c'].iloc[-1]       corr   |Pearson| against the benchmark, *)
(*   nan    the correlation is undefined (pd.isna)          in hundredths  *)
(* A candle response is [kind |-> "exception" | "error_code" | "ok", df].  *)
(***************************************************************************)
\* Mutant: the response code is not tested.
get_data_ignoring_code(resp) ==
    IF resp.kind = "exception" THEN None
    ELSE IF resp.df.len >= MIN_CANDLES THEN resp.df ELSE None

\* get_data (main.py 88-101): the frame, or None.
get_data(resp) ==
    IF resp.kind # "ok" THEN None
    ELSE IF resp.df.len >= MIN_CANDLES THEN resp.df ELSE None

\* get_btc_data (main.py 110-120): the benchmark frame, or None; no length test.
get_btc_data(resp) == IF resp.kind # "ok" THEN None ELSE resp.df

\* vol_24h_check (main.py 104-107) on the snapshot get_ticker_volume obtained.
vol_24h_usd(vols, symbol) == DictGet(vols, symbol, 0)
vol_24h_ok(vols, symbol) == vol_24h_usd(vols, symbol) >= MIN_24H_VOL_USD

\* corr_check (main.py 142-154).
corr_check(symbol, df, btc) ==
    IF ContainsBTC(symbol) THEN 100
    ELSE IF btc = None THEN 50
    ELSE IF df.len < MIN_CANDLES \/ btc.len < MIN_CANDLES THEN 50
    ELSE IF Min(df.len, btc.len) - 1 < 20 THEN 50
    ELSE IF df.nan THEN 50 ELSE df.corr

\* corr_check calls self.get_btc_data() unless the symbol names the benchmark.
BtcRequested(symbol) == ~ContainsBTC(symbol)

\* Mutant: the levels of a long trade, stop below the entry and target above it.
risk_calc_long(df) ==
    LET entry  == df.close
        sl_pct == ATR_SL_MULT * df.atr
        tp_pct == ATR_TP_MULT * df.atr
    IN  [entry |-> entry,
         sl    |-> entry - (entry * sl_pct) \div 1000,
         tp    |-> entry + (entry * tp_pct) \div 1000,
         rr    |-> IF sl_pct > 0 THEN (10 * tp_pct) \div sl_pct ELSE 0,
         atr   |-> df.atr]

\* risk_calc (main.py 186-194): percentages in tenths of a percent, rr in tenths.
risk_calc(df) ==
    LET entry  == df.close
        sl_pct == ATR_SL_MULT * df.atr
        tp_pct == ATR_TP_MULT * df.atr
    IN  [entry |-> entry,
         sl    |-> entry + (entry * sl_pct) \div 1000,
         tp    |-> entry - (entry * tp_pct) \div 1000,
         rr    |-> IF sl_pct > 0 THEN (10 * tp_pct) \div sl_pct ELSE 0,
         atr   |-> df.atr]

\* RiskManager (risk_manager.py 1-11): max_risk_pct in percent, min_rr in tenths.
max_risk_pct == 5
min_rr == 40

Abs(x) == IF x < 0 THEN -x ELSE x

\* validate_trade: rr >= min_rr and risk <= max_risk_pct, risk = |entry - sl| / entry.
validate_trade(entry, sl, tp) ==
    LET risk_x_entry   == Abs(entry - sl)
        reward_x_entry == Abs(tp - entry)
    IN  /\ risk_x_entry > 0
        /\ 10 * reward_x_entry >= min_rr * risk_x_entry
        /\ 100 * risk_x_entry <= max_risk_pct * entry

\* The three if / elif conditions of analyze (main.py 215-236).
GateFvg(fvg, trend, corr_ok, clean, vol_ok, rr) ==
    fvg >= MIN_FVG /\ corr_ok /\ vol_ok /\ rr >= MIN_RR

GateTrend(fvg, trend, corr_ok, clean, vol_ok, rr) ==
    trend /\ corr_ok /\ clean /\ vol_ok /\ rr >= MIN_RR

\* Mutant: the COMBO branch repeats the FVG condition.
GateComboAsFvg(fvg, trend, corr_ok, clean, vol_ok, rr) ==
    fvg >= MIN_FVG /\ corr_ok /\ vol_ok /\ rr >= MIN_RR

GateCombo(fvg, trend, corr_ok, clean, vol_ok, rr) ==
    fvg >= MIN_FVG /\ trend /\ corr_ok /\ clean /\ vol_ok /\ rr >= MIN_RR

Gate(strategy, fvg, trend, corr_ok, clean, vol_ok, rr) ==
    CASE strategy = "FVG"   -> GateFvg(fvg, trend, corr_ok, clean, vol_ok, rr)
      [] strategy = "TREND" -> GateTrend(fvg, trend, corr_ok, clean, vol_ok, rr)
      [] strategy = "COMBO" -> GateCombo(fvg, trend, corr_ok, clean, vol_ok, rr)
      [] OTHER -> FALSE

\* The dict built at main.py 219 / 229 / 239 (the TREND record has no 'fvg' key).
MakeSignal(t, symbol, strategy, df, risk, vol) ==
    IF strategy = "TREND"
    THEN [ts |-> t, symbol |-> symbol, strategy |-> strategy, entry |-> risk.entry,
          sl |-> risk.sl, tp |-> risk.tp, rr |-> risk.rr, vol24h |-> vol]
    ELSE [ts |-> t, symbol |-> symbol, strategy |-> strategy, entry |-> risk.entry,
          sl |-> risk.sl, tp |-> risk.tp, rr |-> risk.rr, fvg |-> df.fvg, vol24h |-> vol]

BucketOf(b) ==
    CASE b = "FVG" -> symbols_fvg [] b = "TREND" -> symbols_trend [] b = "COMBO" -> symbols_combo

(***************************************************************************)
(* Inputs                                                                  *)
(***************************************************************************)
Ticker(s, v) == [instId |-> s, volCcy24h |-> v, ok |-> TRUE]
Malformed == [instId |-> "?", volCcy24h |-> 0, ok |-> FALSE]

SeqsUpTo(S, n) == UNION {[1..k -> S] : k \in 0..n}

OkResponse(data) == [kind |-> "ok", data |-> data]
FailedResponses == {[kind |-> "exception", data |-> <<>>], [kind |-> "error_code", data |-> <<>>]}

\* Ticker responses of the volume-cache specification: every list of up to MaxTickers entries.
VolEntries ==
    {Ticker("ETH-USDT-SWAP", 5), Ticker("ETH-USDT-SWAP", 9), Ticker("SOL-USDT-SWAP", 9),
     Malformed}
VolResponses == FailedResponses \cup {OkResponse(d) : d \in SeqsUpTo(VolEntries, MaxTickers)}

\* Ticker responses of the scan specification.
BoardA == <<Ticker("SOL-USDT-SWAP", 8), Ticker("ETH-USDT-SWAP", 9), Ticker(BENCHMARK, 9),
            Ticker("XRP-USDT-SWAP", 8), Ticker(OTHER_QUOTE, 9), Ticker("DOGE-USDT-SWAP", 5),
            Ticker("ADA-USDT-SWAP", 6)>>
BoardB == <<Ticker("ETH-USDT-SWAP", 3), Ticker("XRP-USDT-SWAP", 9), Ticker("SOL-USDT-SWAP", 5)>>
BoardC == <<Ticker("XRP-USDT-SWAP", 9), Malformed, Ticker("ETH-USDT-SWAP", 9)>>
RunResponses == FailedResponses \cup {OkResponse(BoardA), OkResponse(BoardB), OkResponse(BoardC)}

Frame(n, fvg, trend, clean, atr, corr, nan) ==
    [len |-> n, fvg |-> fvg, trend |-> trend, clean |-> clean, atr |-> atr,
     close |-> 100, corr |-> corr, nan |-> nan]

ShortFrame == Frame(MIN_CANDLES - 1, 1, TRUE, TRUE, 2, 19, FALSE)

AllFrames ==
    {Frame(MIN_CANDLES, f, t, c, a, r, u) :
        f \in {0, 1, 2}, t \in BOOLEAN, c \in BOOLEAN, a \in {0, 2, 4}, r \in {19, 20},
        u \in BOOLEAN}
    \cup {ShortFrame}

RunFrames ==
    {Frame(MIN_CANDLES, 1, TRUE, TRUE, 2, 19, FALSE), ShortFrame}

\* Candle responses: a raised request, or a body with code '0' or an error code.
CandleResponses(frames) ==
    {[kind |-> "exception", df |-> ShortFrame]}
    \cup {[kind |-> k, df |-> d] : k \in {"ok", "error_code"}, d \in frames}

BtcResponses ==
    CandleResponses({Frame(MIN_CANDLES, 0, FALSE, TRUE, 1, 100, FALSE), ShortFrame})

\* A continuous deployment with three equal shares and a single-scan one with two.
RunConfigs ==
    {[fvgPct |-> 34, trendPct |-> 34, single |-> FALSE],
     [fvgPct |-> 50, trendPct |-> 0, single |-> TRUE]}

\* One eligible symbol, at, above and below the volume threshold.
OneSymbolResponses ==
    FailedResponses \cup
    {OkResponse(<<Ticker(BENCHMARK, 9), Ticker("ETH-USDT-SWAP", v)>>) : v \in {4, 5, 9}}
OneBucketConfigs ==
    {[fvgPct |-> p[1], trendPct |-> p[2], single |-> FALSE] :
        p \in {<<100, 0>>, <<0, 100>>, <<0, 0>>}}

\* Ticker responses of the universe specification: every list of up to MaxBoard entries.
BoardEntries ==
    {Ticker("ETH-USDT-SWAP", 9), Ticker("SOL-USDT-SWAP", 9), Ticker("XRP-USDT-SWAP", 6),
     Ticker("ADA-USDT-SWAP", 7), Ticker("DOGE-USDT-SWAP", 5), Ticker(BENCHMARK, 9),
     Ticker(OTHER_QUOTE, 9), Malformed}
UniverseResponses ==
    FailedResponses \cup {OkResponse(d) : d \in SeqsUpTo(BoardEntries, MaxBoard)}

PctValues == {0, 10, 30, 33, 50, 67, 100, 120}
PartitionConfigs ==
    {[fvgPct |-> f, trendPct |-> t, single |-> TRUE] : f \in PctValues, t \in PctValues}

(***************************************************************************)
(* State machine                                                           *)
(***************************************************************************)
\* The library objects not yet constructed or called.
LibIdle ==
    /\ calc = None
    /\ wrapper = None
    /\ pm = None
    /\ pm_last = None

InitCore(configs, universes) ==
    /\ volume_cache = <<>>
    /\ cache_time = 0
    /\ now = StartNow
    /\ call_log = None
    /\ last_good = None
    /\ cfg \in configs
    /\ pc = "main"
    /\ all_symbols \in universes
    /\ symbols_fvg = <<>>
    /\ symbols_trend = <<>>
    /\ symbols_combo = <<>>
    /\ signals = <<>>
    /\ signal_log = <<>>
    /\ last_report = None
    /\ bucket = "FVG"
    /\ idx = 1
    /\ cycle = 0
    /\ evaluated = <<>>
    /\ last_eval = None
    /\ btc_requests = 0
    /\ cycle_snapshot = <<>>
    /\ btc_cache = None
    /\ corr_use = None
    /\ interrupt = None

InitBase(configs, universes) == InitCore(configs, universes) /\ LibIdle

InitWith(configs) == InitBase(configs, {<<>>})

Init == InitWith(RunConfigs)

\* One call of get_all_tickers_once() at the current time, answered by resp.
TickersCall(resp) ==
    LET after == TickersAfter(volume_cache, cache_time, now, resp)
    IN  /\ volume_cache' = after.cache
        /\ cache_time' = after.ctime

CallOutcome(resp) ==
    IF CacheFresh(now, cache_time) THEN "cached"
    ELSE IF resp.kind # "ok" THEN resp.kind
    ELSE IF ParseTickers(resp.data).raised THEN "malformed" ELSE "refreshed"

\* The history of the volume cache: the call just made, the one before it, and the
\* snapshot of the last complete refresh.
TickersHistory(resp) ==
    /\ call_log' = [kind      |-> "call",
                    at        |-> now,
                    outcome   |-> CallOutcome(resp),
                    ret       |-> get_all_tickers_once(volume_cache, cache_time, now, resp),
                    prev_call |-> IF call_log = None THEN None
                                  ELSE [kind |-> "call", at |-> call_log.at,
                                        ret |-> call_log.ret],
                    prev_good |-> last_good]
    /\ last_good' = IF CallOutcome(resp) = "refreshed"
                    THEN [kind |-> "snapshot", at |-> now,
                          cache |-> ParseTickers(resp.data).cache]
                    ELSE last_good

\* main(): bot = OKXShortBot()  (main.py 357, 71-86).
Construct(responses) ==
    /\ pc = "main"
    /\ \E resp \in responses :
        LET vols == get_all_tickers_once(volume_cache, cache_time, now, resp)
            all  == get_dynamic_symbols(vols)
        IN  /\ TickersCall(resp)
            /\ all_symbols' = all
            /\ symbols_fvg' = FvgSlice(all, cfg)
            /\ symbols_trend' = TrendSlice(all, cfg)
            /\ symbols_combo' = ComboSlice(all, cfg)
    /\ signals' = <<>>
    /\ pc' = "scan"
    /\ UNCHANGED <<now, call_log, last_good, cfg, signal_log, last_report, bucket, idx,
                   cycle, evaluated, last_eval, btc_requests, cycle_snapshot, anVars, interrupt, libVars>>

\* Mutant: self.signals is not reset at the top of the loop.
ScanStartKeepingSignals ==
    /\ pc = "scan"
    /\ cycle < MaxCycles
    /\ bucket' = "FVG"
    /\ idx' = 1
    /\ pc' = "analyze"
    /\ cycle' = cycle + 1
    /\ evaluated' = <<>>
    /\ last_eval' = None
    /\ btc_requests' = 0
    /\ cycle_snapshot' = volume_cache
    /\ last_report' = None
    /\ UNCHANGED <<volVars, now, call_log, last_good, cfg, all_symbols, symbols_fvg,
                   symbols_trend, symbols_combo, signals, signal_log, anVars, interrupt,
                   libVars>>

\* run(): top of the while loop up to the first for statement (main.py 319-325).
ScanStart ==
    /\ pc = "scan"
    /\ cycle < MaxCycles
    /\ signals' = <<>>
    /\ bucket' = "FVG"
    /\ idx' = 1
    /\ pc' = "analyze"
    /\ cycle' = cycle + 1
    /\ evaluated' = <<>>
    /\ last_eval' = None
    /\ btc_requests' = 0
    /\ cycle_snapshot' = volume_cache
    /\ last_report' = None
    /\ UNCHANGED <<volVars, now, call_log, last_good, cfg, all_symbols, symbols_fvg,
                   symbols_trend, symbols_combo, signal_log, anVars, interrupt, libVars>>

\* What the provider delivered: a success response carrying at least 50 clean candles.
Usable(candles) == candles.kind = "ok" /\ candles.df.len >= MIN_CANDLES

\* with open(..., 'a') as f: json.dump(sig, f); f.write('\n')  (main.py 221-223).
\* Mutant: the file is opened with 'w'.
AppendLineTruncating(log, sig) == <<sig>>

AppendLine(log, sig) == Append(log, sig)

\* The report gen_report() renders from self.signals (main.py 245-315).
gen_report(c, sigs) == [kind |-> "report", cycle |-> c, signals |-> sigs]

\* A KeyboardInterrupt raised inside requests.get of get_data (main.py 91).
InterruptedRequest == [kind |-> "keyboard_interrupt", df |-> ShortFrame]

\* analyze(symbol, strategy) (main.py 197-243) for the symbol the loop is at, and
\* run()'s handlers around it.  interrupts names the points of the call at which a
\* KeyboardInterrupt may be delivered: "get_data" (line 91) and "log_write" (221-223).
Analyze(frames, responses, interrupts) ==
    /\ pc = "analyze"
    /\ idx <= Len(BucketOf(bucket))
    /\ LET symbol == BucketOf(bucket)[idx]
           strategy == bucket
           fetches == CandleResponses(frames)
                      \cup (IF "get_data" \in interrupts /\ interrupt = None
                            THEN {InterruptedRequest} ELSE {})
           writes == {"ok", "oserror"}
                     \cup (IF "log_write" \in interrupts /\ interrupt = None
                           THEN {"keyboard_interrupt"} ELSE {})
       IN \E candles \in fetches :
          LET df == get_data(candles)
          IN  IF df = None
              THEN \* line 199: return
                   /\ evaluated' = Append(evaluated, [strategy |-> strategy,
                                          symbol |-> symbol, usable |-> Usable(candles),
                                          at |-> now])
                   /\ last_eval' = [kind |-> "skipped", symbol |-> symbol,
                                    strategy |-> strategy, fetch |-> candles.kind,
                                    len |-> candles.df.len,
                                    before |-> signals, log_before |-> signal_log]
                   /\ pc' = "sleep_symbol"
                   \* the bare except of line 100 catches the KeyboardInterrupt as well
                   /\ interrupt' = IF candles.kind = "keyboard_interrupt"
                                   THEN [kind |-> "interrupt", at |-> "get_data",
                                         collected |-> signals, handled |-> FALSE]
                                   ELSE interrupt
                   /\ UNCHANGED <<volVars, signals, signal_log, btc_requests, last_report>>
              ELSE \E tick \in responses, btc_resp \in BtcResponses, write \in writes :
                   LET vols    == get_all_tickers_once(volume_cache, cache_time, now, tick)
                       vol_usd == vol_24h_usd(vols, symbol)
                       vol_ok  == vol_24h_ok(vols, symbol)
                       corr    == corr_check(symbol, df, get_btc_data(btc_resp))
                       corr_ok == corr < MIN_CORR
                       risk    == risk_calc(df)
                       pass    == Gate(strategy, df.fvg, df.trend, corr_ok, df.clean,
                                       vol_ok, risk.rr)
                       sig     == MakeSignal(now, symbol, strategy, df, risk, vol_usd)
                       after   == IF pass THEN Append(signals, sig) ELSE signals
                       caught  == pass /\ write = "keyboard_interrupt"
                   IN  /\ TickersCall(tick)
                       /\ btc_requests' = btc_requests + (IF BtcRequested(symbol) THEN 1 ELSE 0)
                       /\ signals' = after
                       /\ signal_log' = IF pass /\ write = "ok" THEN AppendLine(signal_log, sig)
                                        ELSE signal_log
                       \* An OSError of open / json.dump leaves run() through the try,
                       \* which catches KeyboardInterrupt only (main.py 350-353).
                       /\ pc' = IF ~pass \/ write = "ok" THEN "sleep_symbol"
                                ELSE IF write = "oserror" THEN "crashed" ELSE "stopped"
                       /\ last_report' = IF caught THEN gen_report(cycle, after) ELSE last_report
                       /\ interrupt' = IF caught
                                       THEN [kind |-> "interrupt", at |-> "log_write",
                                             collected |-> after, handled |-> TRUE]
                                       ELSE interrupt
                       /\ evaluated' = Append(evaluated, [strategy |-> strategy,
                                              symbol |-> symbol, usable |-> Usable(candles),
                                          at |-> now])
                       /\ last_eval' = [kind |-> "evaluated", symbol |-> symbol,
                                        strategy |-> strategy, fetch |-> candles.kind,
                                        len |-> candles.df.len,
                                        before |-> signals, log_before |-> signal_log,
                                        fvg |-> df.fvg, trend |-> df.trend, corr |-> corr,
                                        clean |-> df.clean, vol |-> vol_usd, rr |-> risk.rr,
                                        entry |-> risk.entry, sl |-> risk.sl, tp |-> risk.tp]
    /\ UNCHANGED <<now, call_log, last_good, cfg, all_symbols, symbols_fvg, symbols_trend,
                   symbols_combo, bucket, idx, cycle, cycle_snapshot, anVars, libVars>>

\* Mutant: the loop steps on without sleeping.
SleepSkipped ==
    /\ pc = "sleep_symbol"
    /\ now' = now
    /\ idx' = idx + 1
    /\ pc' = "analyze"
    /\ UNCHANGED <<volVars, call_log, last_good, cfg, all_symbols, symbols_fvg,
                   symbols_trend, symbols_combo, signals, signal_log, last_report, bucket,
                   cycle, evaluated, last_eval, btc_requests, cycle_snapshot, anVars, interrupt,
                   libVars>>

\* time.sleep(SLEEP_BETWEEN_SYMBOLS) and the step of the for loop (main.py 327, 332, 337).
SleepBetweenSymbols ==
    /\ pc = "sleep_symbol"
    /\ now' = now + SLEEP_BETWEEN_SYMBOLS
    /\ idx' = idx + 1
    /\ pc' = "analyze"
    /\ UNCHANGED <<volVars, call_log, last_good, cfg, all_symbols, symbols_fvg,
                   symbols_trend, symbols_combo, signals, signal_log, last_report, bucket,
                   cycle, evaluated, last_eval, btc_requests, cycle_snapshot, anVars, interrupt,
                   libVars>>

\* Mutant: the report is rendered after the TREND loop, the COMBO loop is never run.
BucketDoneBeforeCombo ==
    /\ pc = "analyze"
    /\ idx > Len(BucketOf(bucket))
    /\ IF bucket # "FVG"
       THEN pc' = "report" /\ UNCHANGED <<bucket, idx>>
       ELSE /\ bucket' = "TREND"
            /\ idx' = 1
            /\ pc' = "analyze"
    /\ UNCHANGED <<volVars, now, call_log, last_good, cfg, all_symbols, symbols_fvg,
                   symbols_trend, symbols_combo, signals, signal_log, last_report, cycle,
                   evaluated, last_eval, btc_requests, cycle_snapshot, anVars, interrupt, libVars>>

\* A for loop is exhausted: on to the next one, or to line 341 after the COMBO loop.
BucketDone ==
    /\ pc = "analyze"
    /\ idx > Len(BucketOf(bucket))
    /\ IF bucket = "COMBO"
       THEN pc' = "report" /\ UNCHANGED <<bucket, idx>>
       ELSE /\ bucket' = (IF bucket = "FVG" THEN "TREND" ELSE "COMBO")
            /\ idx' = 1
            /\ pc' = "analyze"
    /\ UNCHANGED <<volVars, now, call_log, last_good, cfg, all_symbols, symbols_fvg,
                   symbols_trend, symbols_combo, signals, signal_log, last_report, cycle,
                   evaluated, last_eval, btc_requests, cycle_snapshot, anVars, interrupt, libVars>>

\* Mutant: SINGLE_SCAN_MODE is not tested, the loop always repeats.
ReportAlwaysRepeats ==
    /\ pc = "report"
    /\ \E write_ok \in BOOLEAN :
        IF write_ok
        THEN /\ last_report' = gen_report(cycle, signals)
             /\ pc' = "sleep_cycle"
        ELSE /\ pc' = "crashed"
             /\ UNCHANGED last_report
    /\ UNCHANGED <<volVars, now, call_log, last_good, cfg, all_symbols, symbols_fvg,
                   symbols_trend, symbols_combo, signals, signal_log, bucket, idx, cycle,
                   evaluated, last_eval, btc_requests, cycle_snapshot, anVars, interrupt, libVars>>

\* self.gen_report() at main.py 342 and the mode test at 344-349.  A failing
\* open(filename, "w") raises out of run().
Report ==
    /\ pc = "report"
    /\ \E write_ok \in BOOLEAN :
        IF write_ok
        THEN /\ last_report' = gen_report(cycle, signals)
             /\ pc' = IF cfg.single THEN "done" ELSE "sleep_cycle"
        ELSE /\ pc' = "crashed"
             /\ UNCHANGED last_report
    /\ UNCHANGED <<volVars, now, call_log, last_good, cfg, all_symbols, symbols_fvg,
                   symbols_trend, symbols_combo, signals, signal_log, bucket, idx, cycle,
                   evaluated, last_eval, btc_requests, cycle_snapshot, anVars, interrupt, libVars>>

\* time.sleep(SCAN_INTERVAL_SEC) (main.py 349), back to the top of the while loop.
SleepBetweenCycles ==
    /\ pc = "sleep_cycle"
    /\ now' = now + SCAN_INTERVAL_SEC
    /\ pc' = "scan"
    /\ UNCHANGED <<volVars, call_log, last_good, cfg, all_symbols, symbols_fvg,
                   symbols_trend, symbols_combo, signals, signal_log, last_report, bucket,
                   idx, cycle, evaluated, last_eval, btc_requests, cycle_snapshot, anVars, interrupt, libVars>>

Next ==
    \/ Construct(RunResponses)
    \/ ScanStart
    \/ Analyze(RunFrames, RunResponses, {})
    \/ SleepBetweenSymbols
    \/ BucketDone
    \/ Report
    \/ SleepBetweenCycles

Spec == Init /\ [][Next]_vars

\* run() is one sequential thread: whenever it has a next step it takes it.
SpecLive == Spec /\ WF_vars(Next)

(***************************************************************************)
(* The same run with a KeyboardInterrupt (Ctrl-C) delivered once, at any   *)
(* point of the loop.                                                      *)
(***************************************************************************)
\* except KeyboardInterrupt: self.gen_report(); break  (main.py 350-353), for an
\* interrupt raised where no inner handler stands between it and run(): at the top
\* of the loop, in analyze outside get_data, in a time.sleep, in gen_report.
KeyboardInterrupt ==
    /\ pc \in {"scan", "analyze", "sleep_symbol", "report", "sleep_cycle"}
    /\ interrupt = None
    /\ interrupt' = [kind |-> "interrupt", at |-> pc, collected |-> signals,
                     handled |-> TRUE]
    /\ \E write_ok \in BOOLEAN :
        IF write_ok
        THEN /\ last_report' = gen_report(cycle, signals)
             /\ pc' = "stopped"
        ELSE /\ pc' = "crashed"
             /\ UNCHANGED last_report
    /\ UNCHANGED <<volVars, now, call_log, last_good, cfg, all_symbols, symbols_fvg,
                   symbols_trend, symbols_combo, signals, signal_log, bucket, idx, cycle,
                   evaluated, last_eval, btc_requests, cycle_snapshot, anVars, libVars>>

NextInterrupt ==
    \/ Construct(RunResponses)
    \/ ScanStart
    \/ Analyze(RunFrames, RunResponses, {"get_data", "log_write"})
    \/ SleepBetweenSymbols
    \/ BucketDone
    \/ Report
    \/ SleepBetweenCycles
    \/ KeyboardInterrupt

SpecInterrupt == Init /\ [][NextInterrupt]_vars

(***************************************************************************)
(* The funnel over every frame: the same program on a one-symbol universe, *)
(* the whole of which one configuration puts into one bucket, with each    *)
(* candle response drawn from AllFrames.                                   *)
(***************************************************************************)
InitAnalyze == InitWith(OneBucketConfigs)

NextAnalyze ==
    \/ Construct(OneSymbolResponses)
    \/ ScanStart
    \/ Analyze(AllFrames, OneSymbolResponses, {})
    \/ SleepBetweenSymbols
    \/ BucketDone
    \/ Report
    \/ SleepBetweenCycles

SpecAnalyze == InitAnalyze /\ [][NextAnalyze]_vars

(***************************************************************************)
(* The volume cache alone: get_all_tickers_once() called at arbitrary      *)
(* moments, answered by any response of VolResponses.                      *)
(***************************************************************************)
RefreshCall ==
    /\ \E resp \in VolResponses :
        /\ TickersCall(resp)
        /\ TickersHistory(resp)
    /\ UNCHANGED <<now, cfg, botVars, anVars, interrupt, libVars>>

Tick ==
    /\ now + TickSec <= StartNow + MaxTicks * TickSec
    /\ now' = now + TickSec
    /\ UNCHANGED <<volVars, call_log, last_good, cfg, botVars, anVars, interrupt, libVars>>

NextVolume == RefreshCall \/ Tick

InitVolume == InitWith({[fvgPct |-> 34, trendPct |-> 34, single |-> TRUE]})

SpecVolume == InitVolume /\ [][NextVolume]_vars

(***************************************************************************)
(* The partition alone: lines 74-81 of __init__ applied to a universe of   *)
(* any size up to MaxUniverse under any percentage pair of PctValues.      *)
(***************************************************************************)
InitPartition ==
    InitBase(PartitionConfigs,
             {SubSeq(RankedSymbols, 1, n) : n \in 0..Min(MaxUniverse, Len(RankedSymbols))})

BuildBuckets ==
    /\ pc = "main"
    /\ symbols_fvg' = FvgSlice(all_symbols, cfg)
    /\ symbols_trend' = TrendSlice(all_symbols, cfg)
    /\ symbols_combo' = ComboSlice(all_symbols, cfg)
    /\ signals' = <<>>
    /\ pc' = "scan"
    /\ UNCHANGED <<volVars, now, call_log, last_good, cfg, all_symbols, signal_log,
                   last_report, bucket, idx, cycle, evaluated, last_eval, btc_requests,
                   cycle_snapshot, anVars, interrupt, libVars>>

NextPartition == BuildBuckets

SpecPartition == InitPartition /\ [][NextPartition]_vars

(***************************************************************************)
(* The universe selection alone: one call of get_dynamic_symbols() or of   *)
(* UniverseFilter.get_symbols() answered by any response of                *)
(* UniverseResponses.  call_log records the selector and the ticker        *)
(* snapshot it selected from.                                              *)
(***************************************************************************)
SelectDynamic ==
    /\ pc = "main"
    /\ \E resp \in UniverseResponses :
        LET vols == get_all_tickers_once(volume_cache, cache_time, now, resp)
        IN  /\ TickersCall(resp)
            /\ all_symbols' = get_dynamic_symbols(vols)
            /\ call_log' = [kind |-> "selection", by |-> "get_dynamic_symbols",
                            cap |-> MAX_SYMBOLS, snapshot |-> vols]
    /\ pc' = "scan"
    /\ UNCHANGED <<now, last_good, cfg, symbols_fvg, symbols_trend, symbols_combo, signals,
                   signal_log, last_report, bucket, idx, cycle, evaluated, last_eval,
                   btc_requests, cycle_snapshot, anVars, interrupt, libVars>>

SelectFiltered ==
    /\ pc = "main"
    /\ \E resp \in UniverseResponses :
        /\ all_symbols' = UniverseFilter_get_symbols(resp)
        /\ call_log' = [kind |-> "selection", by |-> "UniverseFilter.get_symbols",
                        cap |-> UNIVERSE_CAP,
                        snapshot |-> IF resp.kind = "ok" THEN ParseTickers(resp.data).cache
                                     ELSE <<>>]
    /\ pc' = "scan"
    /\ UNCHANGED <<volVars, now, last_good, cfg, symbols_fvg, symbols_trend, symbols_combo,
                   signals, signal_log, last_report, bucket, idx, cycle, evaluated, last_eval,
                   btc_requests, cycle_snapshot, anVars, interrupt, libVars>>

NextUniverse == SelectDynamic \/ SelectFiltered

InitUniverse == InitWith({[fvgPct |-> 34, trendPct |-> 34, single |-> TRUE]})

SpecUniverse == InitUniverse /\ [][NextUniverse]_vars

(***************************************************************************)
(* CorrelationAnalyzer (correlation_analyzer.py; CorrelationFilter keeps   *)
(* the same cache).  One instance, constructed once with btc_cache = None, *)
(* serving the symbol evaluations of the scan cycles.                      *)
(***************************************************************************)
\* get_btc_data (9-20): the frame returned; an empty DataFrame on an error code.
EmptyFrame == [kind |-> "df", fetched_in |-> 0, len |-> 0]

AnalyzerBtc(cache, resp, c) ==
    IF cache # None THEN cache
    ELSE IF resp.kind = "ok" THEN [kind |-> "df", fetched_in |-> c, len |-> resp.df.len]
    ELSE EmptyFrame

\* self.btc_cache after the call: assigned on line 18 only, never reset.
AnalyzerCacheAfter(cache, resp, c) ==
    IF cache # None THEN cache
    ELSE IF resp.kind = "ok" THEN [kind |-> "df", fetched_in |-> c, len |-> resp.df.len]
    ELSE None

\* calculate_correlation (22-31) for one symbol frame.
CalculateCorrelation(frames) ==
    /\ pc = "analyze"
    /\ idx <= Len(BucketOf(bucket))
    /\ \E symbol_df \in frames, resp \in BtcResponses :
        IF btc_cache = None /\ resp.kind = "exception"
        THEN \* requests.get raises: nothing catches it in this class
             /\ corr_use' = [kind |-> "raised", cycle |-> cycle]
             /\ UNCHANGED btc_cache
        ELSE LET btc_df == AnalyzerBtc(btc_cache, resp, cycle)
                 computed == symbol_df.len >= MIN_CANDLES /\ btc_df.len >= MIN_CANDLES
             IN  /\ btc_cache' = AnalyzerCacheAfter(btc_cache, resp, cycle)
                 /\ corr_use' = [kind |-> "corr", cycle |-> cycle, computed |-> computed,
                                 fetched_in |-> btc_df.fetched_in,
                                 result |-> IF ~computed \/ symbol_df.nan THEN 50
                                            ELSE symbol_df.corr]
    /\ UNCHANGED <<volVars, now, call_log, last_good, cfg, botVars, interrupt, libVars>>

InitAnalyzer == InitWith(OneBucketConfigs)

NextAnalyzer ==
    \/ Construct(OneSymbolResponses)
    \/ ScanStart
    \/ Analyze(RunFrames, OneSymbolResponses, {})
    \/ CalculateCorrelation(RunFrames)
    \/ SleepBetweenSymbols
    \/ BucketDone
    \/ Report
    \/ SleepBetweenCycles

SpecAnalyzer == InitAnalyzer /\ [][NextAnalyzer]_vars

(***************************************************************************)
(* The indicator functions on their own.  Each specification below starts  *)
(* with the arguments of one call in calc and has the call as its action.  *)
(***************************************************************************)
coreVars == <<volVars, now, call_log, last_good, cfg, botVars, anVars, interrupt>>

InitCall(calls) ==
    /\ InitCore({[fvgPct |-> 34, trendPct |-> 34, single |-> TRUE]}, {<<>>})
    /\ calc \in calls
    /\ wrapper = None
    /\ pm = None
    /\ pm_last = None

\* fvg_count(df) (main.py 123-128).  A series is a sequence of candles [h, l]; Python's
\* index i is position i + 1 here.
OKXShortBot_fvg_count(df, FVG_LOOKBACK_CANDLES) ==
    LET fvgs == {i \in 2..(Len(df) - 1) : df[i + 1].l > df[i - 1].h}
    IN  Cardinality({f \in fvgs : f > Len(df) - FVG_LOOKBACK_CANDLES})

LowCandle == [h |-> 2, l |-> 1]
HighCandle == [h |-> 4, l |-> 3]

FvgCalls ==
    {[kind |-> "args", df |-> d, lookback |-> n] :
        d \in SeqsUpTo({LowCandle, HighCandle}, MaxCandles), n \in 0..(MaxCandles + 1)}

FvgCount ==
    /\ calc.kind = "args"
    /\ calc' = [kind |-> "fvg_count", df |-> calc.df, lookback |-> calc.lookback,
                ret |-> OKXShortBot_fvg_count(calc.df, calc.lookback)]
    /\ UNCHANGED <<coreVars, wrapper, pm, pm_last>>

SpecFvg == InitCall(FvgCalls) /\ [][FvgCount]_vars

\* df.tail(n): the last n rows, all of them when there are fewer.
df_tail(seq, n) == SubSeq(seq, Max(Len(seq) - n, 0) + 1, Len(seq))

\* trend_check(df) (main.py 131-139) on the highs of the series; highs[i] of the code is
\* recent[i + 1] here.
trend_check(highs, TREND_LOOKBACK_CANDLES) ==
    IF Len(highs) < TREND_LOOKBACK_CANDLES THEN FALSE
    ELSE LET recent == df_tail(highs, TREND_LOOKBACK_CANDLES)
             local_maxs == {i \in 3..(Len(recent) - 4) :
                               /\ recent[i + 1] > recent[i]
                               /\ recent[i + 1] > recent[i - 1]
                               /\ recent[i + 1] > recent[i + 2]}
             last == CHOOSE i \in local_maxs : \A j \in local_maxs : j <= i
             prev == CHOOSE i \in local_maxs \ {last} : \A j \in local_maxs \ {last} : j <= i
         IN  Cardinality(local_maxs) >= 2 /\ recent[last + 1] > recent[prev + 1]

TrendCalls ==
    {[kind |-> "args", highs |-> h, lookback |-> n] :
        h \in UNION {[1..k -> {1, 2, 3}] : k \in (MaxHighs - 1)..MaxHighs},
        n \in {MaxHighs - 1, MaxHighs}}

TrendCheck ==
    /\ calc.kind = "args"
    /\ calc' = [kind |-> "trend_check", highs |-> calc.highs, lookback |-> calc.lookback,
                ret |-> trend_check(calc.highs, calc.lookback)]
    /\ UNCHANGED <<coreVars, wrapper, pm, pm_last>>

SpecTrend == InitCall(TrendCalls) /\ [][TrendCheck]_vars

\* manip_check(df) (main.py 157-163) and ManipulationFilter.is_clean
\* (manipulation_filter.py 10-22); df.clean says that the count of candles whose wick
\* ratio is above the threshold stays below the allowed number.
manip_check(df) == IF df.len < MIN_CANDLES THEN TRUE ELSE df.clean
is_clean(df) == IF df.len < MIN_CANDLES THEN TRUE ELSE df.clean

ShortFrames ==
    {Frame(n, 1, TRUE, c, 2, r, u) :
        n \in {0, MIN_CANDLES - 1}, c \in BOOLEAN, r \in {19, 20}, u \in BOOLEAN}

IndicatorCalls ==
    {[kind |-> "args", symbol |-> sym, df |-> d, btc_resp |-> b] :
        sym \in {RankedSymbols[1], BENCHMARK}, d \in ShortFrames \cup AllFrames,
        b \in BtcResponses}

ShortSeriesChecks ==
    /\ calc.kind = "args"
    /\ calc' = [kind |-> "indicators", symbol |-> calc.symbol, df |-> calc.df,
                corr |-> corr_check(calc.symbol, calc.df, get_btc_data(calc.btc_resp)),
                clean |-> manip_check(calc.df),
                is_clean |-> is_clean(calc.df)]
    /\ UNCHANGED <<coreVars, wrapper, pm, pm_last>>

SpecIndicators == InitCall(IndicatorCalls) /\ [][ShortSeriesChecks]_vars

\* risk_calc on frames whose last close and ATR% keep the price levels whole.
RiskCalls ==
    {[kind |-> "args", df |-> [Frame(MIN_CANDLES, 0, FALSE, TRUE, a, 19, FALSE)
                                  EXCEPT !.close = c]] :
        a \in 0..MaxAtr, c \in {200 * k : k \in 0..MaxCloseSteps}}
    \cup {[kind |-> "args", df |-> Frame(MIN_CANDLES, 0, FALSE, TRUE, 2, 19, FALSE)]}

RiskCalc ==
    /\ calc.kind = "args"
    /\ calc' = [kind |-> "risk_calc", df |-> calc.df, ret |-> risk_calc(calc.df)]
    /\ UNCHANGED <<coreVars, wrapper, pm, pm_last>>

SpecRisk == InitCall(RiskCalls) /\ [][RiskCalc]_vars

(***************************************************************************)
(* The two trade validators on the same (entry, sl, tp).                   *)
(***************************************************************************)
\* strategy RiskManager.validate_signal (strategy/riskmanager.py 7-12): rr = reward / risk
\* has no guard, so risk = 0 raises ZeroDivisionError; otherwise
\* rr >= min_rr and risk <= max_risk_pct / 100 with the same defaults 4.0 and 5.0.
validate_signal(entry, sl, tp) ==
    LET risk_x_entry   == Abs(entry - sl)
        reward_x_entry == Abs(tp - entry)
    IN  IF risk_x_entry = 0
        THEN [kind |-> "raise", exc |-> "ZeroDivisionError"]
        ELSE [kind |-> "value",
              v |-> /\ 10 * reward_x_entry >= min_rr * risk_x_entry
                    /\ 100 * risk_x_entry <= max_risk_pct * entry]

ValidatorCalls ==
    {[kind |-> "args", entry |-> e, sl |-> e + k, tp |-> e - 4 * j] :
        e \in {100, 200}, k \in (-MaxOffset)..MaxOffset, j \in 0..MaxOffset}

ValidateBoth ==
    /\ calc.kind = "args"
    /\ calc' = [kind |-> "validate", entry |-> calc.entry, sl |-> calc.sl, tp |-> calc.tp,
                trade  |-> [kind |-> "value",
                            v |-> validate_trade(calc.entry, calc.sl, calc.tp)],
                signal |-> validate_signal(calc.entry, calc.sl, calc.tp)]
    /\ UNCHANGED <<coreVars, wrapper, pm, pm_last>>

SpecValidator == InitCall(ValidatorCalls) /\ [][ValidateBoth]_vars

(***************************************************************************)
(* retry(max_attempts, delay) (decorators.py 5-20): one call of the        *)
(* wrapper.  wrapper holds its frame: the loop variable attempt, the       *)
(* outcome of every call of func made so far, the waits slept, and how the *)
(* wrapper ended.                                                          *)
(***************************************************************************)
\* Mutant: the same delay before every retry.
wait_time_constant(delay, attempt) == delay

\* wait_time = delay * (2 ** attempt)  (line 16).
wait_time(delay, attempt) == delay * (2 ^ attempt)

\* What one call of func may do: return a value or raise an Exception.
FuncOutcomes ==
    {[kind |-> "ok", v |-> "a"], [kind |-> "ok", v |-> "b"],
     [kind |-> "exc", v |-> "E1"], [kind |-> "exc", v |-> "E2"]}

InitRetry ==
    /\ InitCore({[fvgPct |-> 34, trendPct |-> 34, single |-> TRUE]}, {<<>>})
    /\ calc = None
    /\ wrapper \in {[kind |-> "frame", max_attempts |-> m, delay |-> d, attempt |-> 0,
                      outcomes |-> <<>>, waits |-> <<>>, pc |-> "loop", ret |-> None] :
                        m \in 0..MaxAttempts, d \in {1, 2, 3}}
    /\ pm = None
    /\ pm_last = None

\* One iteration of "for attempt in range(max_attempts)" (lines 10-18), or the end of the
\* loop, after which the wrapper returns None.
RetryAttempt ==
    /\ wrapper.kind = "frame"
    /\ wrapper.pc = "loop"
    /\ IF wrapper.attempt >= wrapper.max_attempts
       THEN /\ wrapper' = [wrapper EXCEPT !.pc = "returned", !.ret = None]
            /\ UNCHANGED now
       ELSE \E out \in FuncOutcomes :
            LET called == [wrapper EXCEPT !.outcomes = Append(@, out)]
                wait   == wait_time(wrapper.delay, wrapper.attempt)
            IN  IF out.kind = "ok"
                THEN /\ wrapper' = [called EXCEPT !.pc = "returned", !.ret = out]
                     /\ UNCHANGED now
                ELSE IF wrapper.attempt = wrapper.max_attempts - 1
                THEN /\ wrapper' = [called EXCEPT !.pc = "raised", !.ret = out]
                     /\ UNCHANGED now
                ELSE /\ wrapper' = [called EXCEPT !.waits = Append(@, wait),
                                                  !.attempt = @ + 1]
                     /\ now' = now + wait
    /\ UNCHANGED <<volVars, call_log, last_good, cfg, botVars, anVars, interrupt, calc,
                   pm, pm_last>>

SpecRetry == InitRetry /\ [][RetryAttempt]_vars

(***************************************************************************)
(* PositionManager (position_manager.py 4-39).  pm.positions is the dict   *)
(* as the set of its items: one record per open symbol with the entry and  *)
(* open_time stored at line 16-22 (sl, tp and status are stored too and    *)
(* never read by these methods).  Time is the clock now, in seconds.       *)
(***************************************************************************)
PmSymbols == {"BTC-USDT-SWAP", "ETH-USDT-SWAP", "SOL-USDT-SWAP"}
PmEntries == {100, 200}
PmTickSec == 43200
position_timeout == 24

\* __init__ (lines 5-8): an empty table; max_positions comes from the configuration.
InitPositions ==
    /\ InitCore({[fvgPct |-> 34, trendPct |-> 34, single |-> TRUE]}, {<<>>})
    /\ calc = None
    /\ wrapper = None
    /\ pm \in {[kind |-> "PositionManager", positions |-> {}, max_positions |-> m,
                 position_timeout |-> position_timeout] : m \in 0..MaxPositions}
    /\ pm_last = None

\* Mutant: the table accepts one position more than max_positions.
at_capacity_strict(self) == Cardinality(self.positions) > self.max_positions

\* len(self.positions) >= self.max_positions  (line 12).
at_capacity(self) == Cardinality(self.positions) >= self.max_positions

\* self.positions[symbol] = {...}  (lines 16-22): an existing key is overwritten.
dict_set(table, symbol, entry, open_time) ==
    {p \in table : p.symbol # symbol}
        \cup {[symbol |-> symbol, entry |-> entry, open_time |-> open_time]}

\* del self.positions[symbol] under "if symbol in self.positions"  (lines 27-31).
dict_del(table, symbol) == {p \in table : p.symbol # symbol}

\* elapsed > self.position_timeout, elapsed in hours  (lines 36-37).
timed_out(self, p, t) == t - p.open_time > self.position_timeout * 3600

OpenPosition ==
    /\ pm.kind = "PositionManager"
    /\ \E symbol \in PmSymbols, entry \in PmEntries :
        IF at_capacity(pm)
        THEN /\ pm_last' = [kind |-> "open_position", symbol |-> symbol, at |-> now,
                            ret |-> FALSE, closed |-> {}]
             /\ UNCHANGED pm
        ELSE /\ pm' = [pm EXCEPT !.positions = dict_set(@, symbol, entry, now)]
             /\ pm_last' = [kind |-> "open_position", symbol |-> symbol, at |-> now,
                            ret |-> TRUE, closed |-> {}]
    /\ UNCHANGED <<coreVars, calc, wrapper>>

ClosePosition ==
    /\ pm.kind = "PositionManager"
    /\ \E symbol \in PmSymbols :
        /\ pm' = [pm EXCEPT !.positions = dict_del(@, symbol)]
        /\ pm_last' = [kind |-> "close_position", symbol |-> symbol, at |-> now,
                       ret |-> FALSE, closed |-> {}]
    /\ UNCHANGED <<coreVars, calc, wrapper>>

\* check_timeouts (lines 33-39): close_position for every item whose elapsed time is
\* above the timeout; closed is the set of symbols of its TIMEOUT warnings.
CheckTimeouts ==
    /\ pm.kind = "PositionManager"
    /\ LET late == {p \in pm.positions : timed_out(pm, p, now)}
       IN  /\ pm' = [pm EXCEPT !.positions = @ \ late]
           /\ pm_last' = [kind |-> "check_timeouts", symbol |-> "", at |-> now,
                          ret |-> FALSE, closed |-> {p.symbol : p \in late}]
    /\ UNCHANGED <<coreVars, calc, wrapper>>

\* datetime.now() advances between calls.
PmTick ==
    /\ pm.kind = "PositionManager"
    /\ now < StartNow + MaxPmTicks * PmTickSec
    /\ now' = now + PmTickSec
    /\ UNCHANGED <<volVars, call_log, last_good, cfg, botVars, anVars, interrupt, calc,
                   wrapper, pm, pm_last>>

NextPositions == OpenPosition \/ ClosePosition \/ CheckTimeouts \/ PmTick

SpecPositions == InitPositions /\ [][NextPositions]_vars

(***************************************************************************)
(* Properties                                                              *)
(***************************************************************************)
Concat3(a, b, c) == a \o b \o c

\* The scan plan of a cycle: every bucket symbol with the strategy it is analysed under.
Tagged(strategy, symbols) ==
    [k \in 1..Len(symbols) |-> [strategy |-> strategy, symbol |-> symbols[k]]]

ScanPlan ==
    Concat3(Tagged("FVG", symbols_fvg), Tagged("TREND", symbols_trend),
            Tagged("COMBO", symbols_combo))

\* The gate of the specification over what an evaluation measured.
SpecGate(e) ==
    LET gapOk    == e.fvg >= MIN_FVG
        corrOk   == e.corr < MIN_CORR
        volumeOk == e.vol >= MIN_24H_VOL_USD
        rrOk     == e.rr >= MIN_RR
    IN  CASE e.strategy = "FVG"   -> gapOk /\ corrOk /\ volumeOk /\ rrOk
          [] e.strategy = "TREND" -> e.trend /\ corrOk /\ e.clean /\ volumeOk /\ rrOk
          [] e.strategy = "COMBO" -> gapOk /\ e.trend /\ corrOk /\ e.clean /\ volumeOk /\ rrOk

EvalUsable == last_eval # None /\ last_eval.fetch = "ok" /\ last_eval.len >= MIN_CANDLES

EmittedByLastEval ==
    /\ Len(signals) = Len(last_eval.before) + 1
    /\ SubSeq(signals, 1, Len(last_eval.before)) = last_eval.before
    /\ signals[Len(signals)].symbol = last_eval.symbol
    /\ signals[Len(signals)].strategy = last_eval.strategy

\* C1: after analyze(symbol, strategy) on a usable price series, exactly one Signal
\* tagged with that symbol and strategy has been appended to the cycle's list if the
\* strategy's gate (FVG / TREND / COMBO) holds of the measured values, and the list
\* is unchanged if it does not.
C1_SignalIffGate ==
    EvalUsable =>
        /\ last_eval.kind = "evaluated"
        /\ IF SpecGate(last_eval) THEN EmittedByLastEval ELSE signals = last_eval.before

C1_Witness ==
    /\ EvalUsable
    /\ last_eval.kind = "evaluated"
    /\ last_eval.strategy = "COMBO"
    /\ SpecGate(last_eval)
    /\ EmittedByLastEval

\* C2: an evaluation whose candle fetch raised, returned an error code or delivered
\* fewer than 50 candles appends no signal and hands control back to the bucket loop
\* (the inter-symbol delay), and a cycle that reaches its report has evaluated every
\* symbol of every bucket, failed fetches or not.
C2_StepSkips ==
    (/\ pc = "analyze"
     /\ evaluated' # evaluated
     /\ ~(last_eval'.fetch = "ok" /\ last_eval'.len >= MIN_CANDLES))
    => (signals' = signals /\ signal_log' = signal_log /\ pc' = "sleep_symbol")

C2_AllEvaluated ==
    pc = "report" =>
        [k \in 1..Len(evaluated) |-> evaluated[k].symbol]
            = Concat3(symbols_fvg, symbols_trend, symbols_combo)

C2_FetchFailureSkipsSymbol == [][C2_StepSkips]_vars /\ []C2_AllEvaluated

C2_Witness ==
    /\ pc = "report"
    /\ \E k \in 1..(Len(evaluated) - 1) :
        /\ ~evaluated[k].usable
        /\ evaluated[k + 1].usable
        /\ evaluated[k].strategy = evaluated[k + 1].strategy
    /\ Len(signals) > 0

Built == pc = "scan"

\* C3: the sizes of the three buckets built by __init__ sum to the universe size, for
\* every universe size and every pair of non-negative percentages.
C3_SizesSumToUniverse ==
    Built => Len(symbols_fvg) + Len(symbols_trend) + Len(symbols_combo) = Len(all_symbols)

C3_Witness ==
    /\ Built
    /\ Len(all_symbols) = MaxUniverse
    /\ (Len(all_symbols) * cfg.fvgPct) % 100 # 0
    /\ (Len(all_symbols) * cfg.trendPct) % 100 # 0
    /\ Len(symbols_fvg) > 0 /\ Len(symbols_trend) > 0 /\ Len(symbols_combo) > 0

Occurrences(seq, x) == Cardinality({k \in 1..Len(seq) : seq[k] = x})

\* C4: with percentages that leave a share to COMBO (fvgPct + trendPct <= 100%), the
\* FVG bucket is the first floor(n*fvgPct) symbols of the universe, the TREND bucket the
\* next floor(n*trendPct), the COMBO bucket the remaining suffix; the three concatenate
\* to the universe and every symbol of it lies in exactly one bucket.
C4_OrderPreservingPartition ==
    (Built /\ cfg.fvgPct + cfg.trendPct <= 100) =>
        LET n == Len(all_symbols)
            f == (n * cfg.fvgPct) \div 100
            t == (n * cfg.trendPct) \div 100
        IN  /\ symbols_fvg = SubSeq(all_symbols, 1, f)
            /\ symbols_trend = SubSeq(all_symbols, f + 1, f + t)
            /\ symbols_combo = SubSeq(all_symbols, f + t + 1, n)
            /\ Concat3(symbols_fvg, symbols_trend, symbols_combo) = all_symbols
            /\ \A k \in 1..n :
                 Occurrences(symbols_fvg, all_symbols[k])
                 + Occurrences(symbols_trend, all_symbols[k])
                 + Occurrences(symbols_combo, all_symbols[k]) = 1

C4_Witness ==
    /\ Built
    /\ cfg.fvgPct = 30 /\ cfg.trendPct = 33
    /\ Len(all_symbols) = MaxUniverse
    /\ Len(symbols_fvg) < Len(symbols_combo)
    /\ Len(symbols_trend) > 0

InWindowOf(record) == record # None /\ call_log.at - record.at < CACHE_TTL

\* C5 as stated: a call within 300 s of the previous call returns the snapshot that
\* call returned and sends no request, whatever the earlier calls did.
C5_Original ==
    (call_log # None /\ InWindowOf(call_log.prev_call)) =>
        (call_log.outcome = "cached" /\ call_log.ret = call_log.prev_call.ret)

\* C5 amended: a call within 300 s of the last complete refresh returns the snapshot
\* that refresh stored and sends no request, whatever calls were made in between.
C5_IdempotentWithinTtlOfRefresh ==
    (call_log # None /\ InWindowOf(call_log.prev_good)) =>
        (call_log.outcome = "cached" /\ call_log.ret = call_log.prev_good.cache)

C5_Witness ==
    /\ call_log # None
    /\ InWindowOf(call_log.prev_good)
    /\ call_log.at > call_log.prev_good.at
    /\ call_log.outcome = "cached"
    /\ Len(call_log.ret) > 0

\* C6: a call whose refetch failed (request exception, error code or malformed ticker
\* entry) returns the snapshot of the last complete refresh, empty only if there was none.
C6_FailureReturnsLastGood ==
    (call_log # None /\ call_log.outcome \in {"exception", "error_code", "malformed"}) =>
        call_log.ret = (IF call_log.prev_good = None THEN <<>> ELSE call_log.prev_good.cache)

\* C7: within one scan cycle the bot sends at most one benchmark candle request.
C7_OneBenchmarkFetchPerCycle == btc_requests <= 1

\* C8: a correlation computed in a cycle uses a benchmark series fetched in that cycle.
C8_BenchmarkFetchedThisCycle ==
    (corr_use # None /\ corr_use.kind = "corr" /\ corr_use.computed) =>
        corr_use.fetched_in = corr_use.cycle

C10_UniverseRebuiltEachCycle ==
    pc \in {"analyze", "sleep_symbol", "report"} =>
        LET all == get_dynamic_symbols(cycle_snapshot)
        IN  /\ symbols_fvg = FvgSlice(all, cfg)
            /\ symbols_trend = TrendSlice(all, cfg)
            /\ symbols_combo = ComboSlice(all, cfg)

InReportPhase == bucket = "COMBO" /\ idx > Len(symbols_combo)

\* C11: once the report of a cycle is rendered, run() ends if SINGLE_SCAN_MODE is set
\* (after exactly one cycle and one report) and otherwise sleeps SCAN_INTERVAL_SEC and
\* starts the next cycle; a report is rendered once per cycle, from the report phase,
\* and a continuous run never reaches the end of run().
C11_AfterReport ==
    /\ (pc = "report" /\ last_report' # last_report) =>
           pc' = (IF cfg.single THEN "done" ELSE "sleep_cycle")
    /\ pc = "sleep_cycle" => (pc' = "scan" /\ now' = now + SCAN_INTERVAL_SEC)
    /\ (pc = "scan" /\ cycle >= 1) =>
           (pc' = "analyze" /\ cycle' = cycle + 1 /\ signals' = <<>> /\ ~cfg.single)
    /\ (last_report' # last_report /\ last_report' # None) =>
           (pc = "report" /\ last_report = None)

C11_Terminal ==
    pc = "done" => (cfg.single /\ cycle = 1 /\ last_report = gen_report(1, signals))

C11_SingleShotOrRepeat == [][C11_AfterReport]_vars /\ []C11_Terminal

C11_Witness ==
    /\ ~cfg.single
    /\ cycle = 2
    /\ pc = "analyze"
    /\ now >= StartNow + SCAN_INTERVAL_SEC

\* C12: an interrupt delivered at any point of the run loop reaches run()'s handler,
\* which renders the report from all signals collected so far and ends run().
C12_InterruptFlushesSignals ==
    interrupt # None =>
        /\ interrupt.handled
        /\ pc \in {"stopped", "crashed"}
        /\ pc = "stopped" => (last_report # None /\ last_report.signals = interrupt.collected)

\* C13: an evaluation whose signal passed the gate but whose log write failed leaves the
\* signal in the list and the run going (on to the inter-symbol delay).
C13_LogWriteFailureDoesNotBlock ==
    (/\ last_eval # None
     /\ last_eval.kind = "evaluated"
     /\ Len(signals) > Len(last_eval.before)
     /\ signal_log = last_eval.log_before)
    => pc # "crashed"

\* C14: run() is never ended by a failure of the report renderer at the end of a cycle.
C14_ReportFailureDoesNotAbort == ~(pc = "crashed" /\ InReportPhase)

\* C15: while run() is going, the signals of the in-cycle list are the last records of
\* the signal log, and every step leaves the records already written as a prefix of it.
C15_ListInLog ==
    pc \notin {"crashed", "stopped"} =>
        /\ Len(signals) <= Len(signal_log)
        /\ SubSeq(signal_log, Len(signal_log) - Len(signals) + 1, Len(signal_log)) = signals

C15_AppendOnly ==
    /\ Len(signal_log') >= Len(signal_log)
    /\ SubSeq(signal_log', 1, Len(signal_log)) = signal_log

C15_DurableAppendOnlyLog == [][C15_AppendOnly]_vars /\ []C15_ListInLog

C15_Witness ==
    /\ cycle = 2
    /\ pc = "sleep_symbol"
    /\ Len(signals) >= 1
    /\ Len(signal_log) > Len(signals)

\* C16: every cycle that has started its scan reaches its report phase.
C16_CycleReachesReport == (pc = "analyze") ~> (pc = "report")

NoEligibleIn(snapshot) ==
    \A k \in 1..Len(snapshot) :
        ~(/\ snapshot[k].vol > MIN_24H_VOL_USD
          /\ EndsWithUsdtSwap(snapshot[k].instId)
          /\ snapshot[k].instId # BENCHMARK)

\* C17: when the snapshot the bot was constructed from holds no eligible symbol (it may
\* hold nothing at all), the three buckets are empty and the first cycle evaluates
\* nothing, collects no signal and reaches its report phase; nothing raises before the
\* report's own file write.
C17_EmptyUniverseRuns ==
    (cycle = 1 /\ NoEligibleIn(cycle_snapshot)) =>
        /\ all_symbols = <<>>
        /\ symbols_fvg = <<>> /\ symbols_trend = <<>> /\ symbols_combo = <<>>
        /\ signals = <<>> /\ evaluated = <<>>
        /\ pc \in {"analyze", "report", "sleep_cycle", "scan", "done", "crashed"}
        /\ pc = "crashed" => InReportPhase
        /\ last_report # None => last_report = gen_report(1, <<>>)

C17_Witness ==
    /\ cycle = 1
    /\ Len(cycle_snapshot) > 0
    /\ NoEligibleIn(cycle_snapshot)
    /\ last_report # None

Selected == call_log # None /\ call_log.kind = "selection"

SelectionIsTop(sel, snap, cap) ==
    LET vol(x) == DictGet(snap, x, 0)
        inside(x) == \E k \in 1..Len(sel) : sel[k] = x
    IN  /\ \A k \in 1..Len(sel) :
             DictHas(snap, sel[k]) /\ EndsWithUsdtSwap(sel[k]) /\ sel[k] # BENCHMARK
        /\ Len(sel) <= cap
        /\ \A j, k \in 1..Len(sel) : j # k => sel[j] # sel[k]
        /\ \A k \in 1..(Len(sel) - 1) : vol(sel[k]) >= vol(sel[k + 1])
        /\ \A j \in 1..Len(snap) :
             (EndsWithUsdtSwap(snap[j].instId) /\ snap[j].instId # BENCHMARK
              /\ ~inside(snap[j].instId))
             => \A k \in 1..Len(sel) : snap[j].vol <= vol(sel[k])

\* C18: the selected universe holds only symbols of the snapshot with the contract
\* suffix other than the benchmark, at most the selector's cap of them, none twice, in
\* descending volume order, and no such symbol left out has a strictly higher volume
\* than one selected; for get_dynamic_symbols and for UniverseFilter.get_symbols.
C18_UniverseIsTopByVolume ==
    Selected => SelectionIsTop(all_symbols, call_log.snapshot, call_log.cap)

\* The same of the selection get_dynamic_symbols makes, the one OKXShortBot uses.
DynamicUniverseIsTopByVolume ==
    (Selected /\ call_log.by = "get_dynamic_symbols") =>
        SelectionIsTop(all_symbols, call_log.snapshot, call_log.cap)

\* C19: every signal in the cycle's list passes the trade validator: its reward:risk
\* ratio is at least min_rr and its risk fraction |entry - sl| / entry at most max_risk_pct.
C19_SignalsPassValidator ==
    \A k \in 1..Len(signals) : validate_trade(signals[k].entry, signals[k].sl, signals[k].tp)

\* C20: no benchmark fetch of CorrelationAnalyzer lets an exception out to its caller.
C20_FetchNeverRaises == corr_use.kind # "raised"

\* C21: fvg_count is the number of indices i >= 2 with low[i] > high[i-2] among the
\* most recent lookbackCandles indices, len - lookbackCandles <= i <= len - 1.
C21_GapCountOverLookback ==
    calc.kind = "fvg_count" =>
        calc.ret = Cardinality({i \in 0..(Len(calc.df) - 1) :
                                   /\ i >= 2
                                   /\ calc.df[i + 1].l > calc.df[i - 1].h
                                   /\ i >= Len(calc.df) - calc.lookback})

\* A local maximum as the claim defines it: strictly above the two highs before it and
\* the two highs after it.
LocalMaxima(recent) ==
    {i \in 3..(Len(recent) - 2) :
        /\ recent[i] > recent[i - 1] /\ recent[i] > recent[i - 2]
        /\ recent[i] > recent[i + 1] /\ recent[i] > recent[i + 2]}

\* C22: trend_check is false on fewer than lookbackCandles candles and otherwise true
\* exactly when the most recent lookbackCandles highs have at least two local maxima and
\* the most recent of them is strictly higher than the one before it.
C22_UptrendIffRisingMaxima ==
    calc.kind = "trend_check" =>
        LET recent == df_tail(calc.highs, calc.lookback)
            maxima == LocalMaxima(recent)
        IN  calc.ret =
              (/\ Len(calc.highs) >= calc.lookback
               /\ \E a, b \in maxima :
                    /\ a < b
                    /\ \A m \in maxima : m <= a \/ m = b
                    /\ recent[b] > recent[a])

\* C23: on a series shorter than 50 candles the manipulation check returns true and the
\* correlation check returns 0.5, whatever the symbol and the benchmark fetch.
C23_ShortSeriesDefaults ==
    (calc.kind = "indicators" /\ calc.df.len < MIN_CANDLES) =>
        (calc.clean /\ calc.is_clean /\ calc.corr = 50)

\* C24: risk_calc returns entry = last close, sl = entry * (1 + slPct/100),
\* tp = entry * (1 - tpPct/100) with slPct = ATR_SL_MULT * atr%, tpPct = ATR_TP_MULT * atr%,
\* and rr = tpPct / slPct if slPct > 0 else 0; so for entry > 0 and atr% > 0 the stop is
\* strictly above the entry and the target strictly below it, and entry 100 at atr% 2
\* gives 103, 88 and 4.0.
C24_RiskLevels ==
    calc.kind = "risk_calc" =>
        LET r      == calc.ret
            entry  == calc.df.close
            sl_pct == ATR_SL_MULT * calc.df.atr
            tp_pct == ATR_TP_MULT * calc.df.atr
        IN  /\ r.entry = entry
            /\ 1000 * (r.sl - entry) = entry * sl_pct
            /\ 1000 * (entry - r.tp) = entry * tp_pct
            /\ IF sl_pct > 0 THEN r.rr * sl_pct = 10 * tp_pct ELSE r.rr = 0
            /\ (entry > 0 /\ calc.df.atr > 0) => (r.sl > entry /\ r.tp < entry)
            /\ (entry = 100 /\ calc.df.atr = 2) => (r.sl = 103 /\ r.tp = 88 /\ r.rr = 40)

C24_Witness ==
    /\ calc.kind = "risk_calc"
    /\ calc.df.close = 100 /\ calc.df.atr = 2
    /\ calc.ret.sl = 103 /\ calc.ret.tp = 88 /\ calc.ret.rr = 40

\* C25: evaluations happen one at a time, none starts while the delay after the previous
\* one is running, and consecutive evaluations of a cycle start at least
\* SLEEP_BETWEEN_SYMBOLS apart.
C25_Spacing ==
    \A k \in 1..(Len(evaluated) - 1) :
        evaluated[k + 1].at >= evaluated[k].at + SLEEP_BETWEEN_SYMBOLS

C25_OneAtATime ==
    /\ Len(evaluated') <= Len(evaluated) + 1
    /\ pc = "sleep_symbol" => evaluated' = evaluated
    /\ (pc = "analyze" /\ evaluated' # evaluated) => pc' \in {"sleep_symbol", "crashed"}

C25_DelayBetweenEvaluations == [][C25_OneAtATime]_vars /\ []C25_Spacing

C25_Witness ==
    \E k \in 1..(Len(evaluated) - 1) :
        /\ evaluated[k].strategy = evaluated[k + 1].strategy
        /\ evaluated[k + 1].at = evaluated[k].at + SLEEP_BETWEEN_SYMBOLS

SignalTag(sig) == [strategy |-> sig.strategy, symbol |-> sig.symbol]

PlanIndex(tag) == CHOOSE i \in 1..Len(ScanPlan) : ScanPlan[i] = tag

\* C28: the in-cycle list holds at most one signal per symbol, every signal carries the
\* strategy of the bucket its symbol is in, every signal belongs to an evaluation of the
\* current cycle (the list starts each cycle empty), and the signals are in scan order.
C28_SignalListShape ==
    /\ \A j, k \in 1..Len(signals) : j # k => signals[j].symbol # signals[k].symbol
    /\ \A k \in 1..Len(signals) :
         /\ \E i \in 1..Len(ScanPlan) : ScanPlan[i] = SignalTag(signals[k])
         /\ \E i \in 1..Len(evaluated) :
              /\ evaluated[i].symbol = signals[k].symbol
              /\ evaluated[i].strategy = signals[k].strategy
    /\ \A j, k \in 1..Len(signals) :
         j < k => PlanIndex(SignalTag(signals[j])) < PlanIndex(SignalTag(signals[k]))
    /\ (pc = "analyze" /\ evaluated = <<>>) => signals = <<>>

C28_Witness ==
    /\ cycle = 2
    /\ Len(signals) = 3
    /\ signals[1].strategy = "FVG" /\ signals[2].strategy = "TREND"
    /\ signals[3].strategy = "COMBO"

RECURSIVE SumSeq(_)
SumSeq(seq) == IF seq = <<>> THEN 0 ELSE seq[1] + SumSeq(SubSeq(seq, 2, Len(seq)))

\* C26: the wrapped function is called at most max_attempts times; every call before the
\* last one made has failed; the k-th failure (k = 0, 1, ...) that is not the last
\* attempt is followed by a wait of delay * 2^k; the wrapper returns the result of the
\* first successful call; and when all max_attempts calls fail it raises the last
\* exception with no wait after it.
C26_RetryPolicy ==
    wrapper.kind = "frame" =>
        LET w     == wrapper
            calls == Len(w.outcomes)
        IN  /\ calls <= w.max_attempts
            /\ \A k \in 1..(calls - 1) : w.outcomes[k].kind = "exc"
            /\ \A k \in 1..Len(w.waits) : w.waits[k] = w.delay * (2 ^ (k - 1))
            /\ now = StartNow + SumSeq(w.waits)
            /\ w.pc = "loop" => (Len(w.waits) = calls /\ w.attempt = calls)
            /\ (w.pc = "returned" /\ calls > 0) =>
                   /\ w.outcomes[calls].kind = "ok"
                   /\ w.ret = w.outcomes[calls]
                   /\ Len(w.waits) = calls - 1
            /\ w.pc = "raised" =>
                   /\ calls = w.max_attempts
                   /\ w.outcomes[calls].kind = "exc"
                   /\ w.ret = w.outcomes[calls]
                   /\ Len(w.waits) = calls - 1
            /\ (w.pc = "loop" /\ calls > 0) => w.outcomes[calls].kind = "exc"

C26_Witness ==
    /\ wrapper.kind = "frame"
    /\ wrapper.pc = "raised"
    /\ wrapper.max_attempts = MaxAttempts
    /\ wrapper.delay = 3
    /\ Len(wrapper.waits) = MaxAttempts - 1
    /\ wrapper.ret.v = "E2"

\* C27: for every (entry, stopLoss, takeProfit) with entry > 0 validate_trade and
\* validate_signal return the same verdict, accept iff reward/risk >= minRR and
\* risk <= maxRiskFraction with the ratio taken as 0 when risk is 0; neither raises, a
\* trade with stopLoss = entry is rejected as a value.
C27_ValidatorsAgree ==
    calc.kind = "validate" =>
        LET risk_x_entry   == Abs(calc.entry - calc.sl)
            reward_x_entry == Abs(calc.tp - calc.entry)
            accept == /\ risk_x_entry > 0
                      /\ 10 * reward_x_entry >= min_rr * risk_x_entry
                      /\ 100 * risk_x_entry <= max_risk_pct * calc.entry
        IN  /\ calc.trade.kind = "value"
            /\ calc.signal.kind = "value"
            /\ calc.trade.v = accept
            /\ calc.signal.v = accept

\* A step that is a PositionManager call: the record of the last call changes.
PmCall(kind) == pm_last' # pm_last /\ pm_last'.kind = kind

OpenSymbols(self) == {p.symbol : p \in self.positions}

\* C29: the number of open positions never exceeds max_positions (one entry per symbol);
\* open_position called with max_positions positions open returns False and leaves the
\* table unchanged; close_position of a symbol that is not open leaves the table
\* unchanged; check_timeouts closes exactly the positions older than the timeout.
C29_PositionTable ==
    /\ [](pm.kind = "PositionManager" =>
              /\ Cardinality(pm.positions) <= pm.max_positions
              /\ Cardinality(OpenSymbols(pm)) = Cardinality(pm.positions))
    /\ [][/\ (PmCall("open_position") /\ Cardinality(pm.positions) = pm.max_positions)
              => (pm_last'.ret = FALSE /\ pm'.positions = pm.positions)
          /\ (PmCall("close_position") /\ pm_last'.symbol \notin OpenSymbols(pm))
              => pm'.positions = pm.positions
          /\ PmCall("check_timeouts")
              => /\ pm'.positions =
                       {p \in pm.positions :
                           now - p.open_time <= position_timeout * 3600}
                 /\ pm_last'.closed =
                       {p.symbol : p \in {q \in pm.positions :
                           now - q.open_time > position_timeout * 3600}}]_vars

C29_Witness ==
    /\ pm.kind = "PositionManager"
    /\ pm_last.kind = "check_timeouts"
    /\ pm_last.at = now
    /\ pm_last.closed # {}
    /\ \E p \in pm.positions : now - p.open_time = position_timeout * 3600

====
